---- MODULE Spec2Model ----
(***************************************************************************)
(* Bounded Voronoi pipeline of geo-bounded-voronoi (src/src/input.rs,      *)
(* src/src/voronoi.rs).                                                    *)
(*                                                                         *)
(* f64 is modelled by a scaled-down binary floating-point format with the  *)
(* same structure as IEEE-754 binary64: signed zeros, subnormals, normals, *)
(* infinities, NaN, round-to-nearest-even and overflow to infinity.  A     *)
(* finite value is sign * m units, the unit being the smallest subnormal.  *)
(***************************************************************************)
EXTENDS Integers, Sequences, FiniteSets, TLC

\* ------------------------------------------------------------------ bounds
\* Mantissa width (bits, hidden bit included) and greatest exponent of the
\* scaled-down float format.
MantBits == 3
ExpMax == 3
\* Longest raw point list, most regions one boolean operation returns.
MaxPoints == 2
MaxRegions == 2

\* ------------------------------------------------------------- f64 values
RECURSIVE Pow2(_)
Pow2(n) == IF n = 0 THEN 1 ELSE 2 * Pow2(n - 1)

MinNormal == Pow2(MantBits - 1)
FMaxMag == (Pow2(MantBits) - 1) * Pow2(ExpMax)
Over == Pow2(MantBits + ExpMax)

Fin(s, m) == [k |-> "fin", s |-> s, m |-> m]
F(n) == IF n < 0 THEN Fin(-1, -n) ELSE Fin(1, n)
NegZero == Fin(-1, 0)
PInf == [k |-> "inf", s |-> 1, m |-> 0]
NInf == [k |-> "inf", s |-> -1, m |-> 0]
NaN == [k |-> "nan", s |-> 1, m |-> 0]
F64_MAX == Fin(1, FMaxMag)
F64_MIN == Fin(-1, FMaxMag)

SetMin(S) == CHOOSE x \in S : \A y \in S : x <= y

\* Spacing of the representable magnitudes around h/2 units: 2^e for the
\* least exponent e with h/2 < 2^(MantBits + e).
RECURSIVE Ulp(_, _)
Ulp(h, e) == IF e = ExpMax \/ h < 2 * Pow2(MantBits + e) THEN Pow2(e) ELSE Ulp(h, e + 1)

\* Round h/2 units (h >= 0) to the nearest representable magnitude, ties to
\* the even mantissa; Over stands for a result beyond the greatest finite one.
RoundAt(h, ulp) ==
    LET q == h \div (2 * ulp)
        rem == h % (2 * ulp)
    IN  IF rem < ulp THEN q * ulp
        ELSE IF rem > ulp THEN (q + 1) * ulp
        ELSE IF q % 2 = 0 THEN q * ulp ELSE (q + 1) * ulp

RoundHalf(h) == IF h >= 2 * Over THEN Over ELSE RoundAt(h, Ulp(h, 0))

Rounded(s, h) ==
    LET r == RoundHalf(h)
    IN  IF r = Over THEN [k |-> "inf", s |-> s, m |-> 0] ELSE Fin(s, r)

IsNan(a) == a.k = "nan"
IsFinite(a) == a.k = "fin"
IsSubnormal(a) == a.k = "fin" /\ a.m > 0 /\ a.m < MinNormal
\* Position on the extended real line (not for NaN).
Ext(a) == IF a.k = "fin" THEN a.s * a.m ELSE a.s * 2 * Over

FEq(a, b) == ~IsNan(a) /\ ~IsNan(b) /\ Ext(a) = Ext(b)
FLt(a, b) == ~IsNan(a) /\ ~IsNan(b) /\ Ext(a) < Ext(b)
FGt(a, b) == FLt(b, a)
FLe(a, b) == ~IsNan(a) /\ ~IsNan(b) /\ Ext(a) <= Ext(b)

FNeg(a) == IF IsNan(a) THEN a ELSE [a EXCEPT !.s = -a.s]

FAdd(a, b) ==
    IF IsNan(a) \/ IsNan(b) THEN NaN
    ELSE IF a.k = "inf" /\ b.k = "inf" THEN (IF a.s = b.s THEN a ELSE NaN)
    ELSE IF a.k = "inf" THEN a
    ELSE IF b.k = "inf" THEN b
    ELSE LET v == a.s * a.m + b.s * b.m
         IN  IF v = 0 THEN Fin(IF a.s = -1 /\ b.s = -1 THEN -1 ELSE 1, 0)
             ELSE IF v < 0 THEN Rounded(-1, 2 * (-v))
             ELSE Rounded(1, 2 * v)

FSub(a, b) == FAdd(a, FNeg(b))

\* a / 2.0
FHalf(a) == IF a.k = "fin" THEN Rounded(a.s, a.m) ELSE a

\* f64::to_bits: the representation itself (sign, class, magnitude).
ToBits(a) == <<a.k, a.s, a.m>>

\* ------------------------------------------------------ Option and Result
None == <<>>
Some(v) == <<v>>
IsSome(o) == o # <<>>
Unwrap(o) == o[1]

Ok(v) == [ok |-> TRUE, v |-> v, err |-> ""]
Err(e) == [ok |-> FALSE, v |-> <<>>, err |-> e]

ErrBoundPoints == "At least 3 points are needed to specify a bounding polygon."
ErrBoundInvalid == "The bounding polygon is invalid."
ErrPoints == "The point set does not contain enough valid points."
ErrBuild == "No Voronoi diagramm could be built for the specified point set."
ErrRect == "Invalid polygon. Cannot calculate bounding rectangle."
ErrIntersection == "No intersection could be found between the bound and the voronoi cell."

\* ---------------------------------------------------------------- Point2D
\* Point2D::new: None when a coordinate is not finite or is subnormal.
Point2DNew(x, y) ==
    IF ~IsFinite(x) \/ IsSubnormal(x) \/ ~IsFinite(y) \/ IsSubnormal(y)
    THEN None
    ELSE Some([x |-> x, y |-> y])

\* derive(PartialEq): field-wise f64 ==.
Point2DEq(p, q) == FEq(p.x, q.x) /\ FEq(p.y, q.y)

\* f64::partial_cmp
F64PartialCmp(a, b) ==
    IF IsNan(a) \/ IsNan(b) THEN None
    ELSE IF Ext(a) < Ext(b) THEN Some("Less")
    ELSE IF Ext(a) > Ext(b) THEN Some("Greater")
    ELSE Some("Equal")

\* derive(PartialOrd): lexicographic over (x, y).
Point2DPartialCmp(p, q) ==
    LET cx == F64PartialCmp(p.x, q.x)
    IN  IF cx = Some("Equal") THEN F64PartialCmp(p.y, q.y) ELSE cx

\* Ord::cmp: partial_cmp(..).unwrap(), a panic on None.
Point2DCmp(p, q) ==
    LET c == Point2DPartialCmp(p, q)
    IN  IF IsSome(c) THEN Unwrap(c) ELSE "panic"

\* Hash::hash: what is fed to the hasher, x.to_bits() then y.to_bits().
Point2DHashInput(p) == <<ToBits(p.x), ToBits(p.y)>>

\* HashSet<Point2D>::insert.  The table looks for a stored element whose hash
\* matches and which compares == to p.  An element with the same hasher input
\* is always found.  An element that is == with another hasher input is found
\* only when the two hashes collide under the set's random keys; either
\* outcome is possible.  Returns the possible sets after the insert.
HashSetInsert(hs, p) ==
    IF \E e \in hs : Point2DHashInput(e) = Point2DHashInput(p)
    THEN {hs}
    ELSE {hs \cup {p}} \cup (IF \E e \in hs : Point2DEq(e, p) THEN {hs} ELSE {})

\* BoundedPointSet::point_set: filter_map(Point2D::new) then collect into a
\* HashSet, one insert per list entry.  Returns the possible resulting sets.
RECURSIVE PointSetFrom(_, _, _)
PointSetFrom(list, i, hs) ==
    IF i > Len(list) THEN {hs}
    ELSE LET p == Point2DNew(list[i][1], list[i][2])
         IN  IF IsSome(p)
             THEN UNION {PointSetFrom(list, i + 1, h) : h \in HashSetInsert(hs, Unwrap(p))}
             ELSE PointSetFrom(list, i + 1, hs)

PointSet(list) == PointSetFrom(list, 1, {})

\* Iteration orders of a HashSet: any enumeration of its elements (the order
\* follows the per-instance random hash keys).
HashSetIter(hs) ==
    {f \in [1..Cardinality(hs) -> hs] : \A e \in hs : \E i \in 1..Cardinality(hs) : f[i] = e}

\* From<Point2D> for voronoice::Point
ToVoronoiPoint(p) == [x |-> p.x, y |-> p.y]

\* BoundedPointSet::voronoi_point_set: a fresh point_set(), iterated and mapped.
VoronoiPointSet(list) ==
    UNION {{[i \in 1..Len(it) |-> ToVoronoiPoint(it[i])] : it \in HashSetIter(hs)} :
           hs \in PointSet(list)}

\* ---------------------------------------------------------------- Polygon
CoordEq(a, b) == FEq(a[1], b[1]) /\ FEq(a[2], b[2])

\* LineString::close, applied by Polygon::new: push a copy of the first
\* coordinate unless the ring is empty or first == last.
CloseRing(ring) ==
    IF ring = <<>> THEN ring
    ELSE IF CoordEq(ring[1], ring[Len(ring)]) THEN ring
    ELSE Append(ring, ring[1])

PolygonNew(exterior, interiors) ==
    [exterior |-> CloseRing(exterior),
     interiors |-> [i \in 1..Len(interiors) |-> CloseRing(interiors[i])]]

NoPolygon == [exterior |-> <<>>, interiors |-> <<>>]

\* bounding_polygon with the length test off by one (len() <= 3).
BoundingPolygonOffByOne(b) ==
    LET bound_points == [i \in 1..Len(b) |-> <<b[i][1], b[i][2]>>]
    IN  IF Len(bound_points) <= 3
        THEN Err(ErrBoundPoints)
        ELSE Ok(PolygonNew(bound_points, <<>>))

\* bounding_polygon with the two coordinates of every point exchanged.
BoundingPolygonSwapped(b) ==
    LET bound_points == [i \in 1..Len(b) |-> <<b[i][2], b[i][1]>>]
    IN  IF Len(bound_points) < 3
        THEN Err(ErrBoundPoints)
        ELSE Ok(PolygonNew(bound_points, <<>>))

\* BoundedPointSet::bounding_polygon
BoundingPolygon(b) ==
    LET bound_points == [i \in 1..Len(b) |-> <<b[i][1], b[i][2]>>]
    IN  IF Len(bound_points) < 3
        THEN Err(ErrBoundPoints)
        ELSE Ok(PolygonNew(bound_points, <<>>))

\* geo's bounding-rectangle fold over the exterior coordinates.
GetMinMax(p, min, max) ==
    IF FGt(p, max) THEN <<min, p>>
    ELSE IF FLt(p, min) THEN <<p, max>>
    ELSE <<min, max>>

RECURSIVE RectFold(_, _, _, _)
RectFold(ring, i, xr, yr) ==
    IF i > Len(ring) THEN <<xr, yr>>
    ELSE RectFold(ring, i + 1, GetMinMax(ring[i][1], xr[1], xr[2]),
                  GetMinMax(ring[i][2], yr[1], yr[2]))

\* Rect::new orders its two corners per axis.
RectNew(c1, c2) ==
    LET xs == IF FLt(c1[1], c2[1]) THEN <<c1[1], c2[1]>> ELSE <<c2[1], c1[1]>>
        ys == IF FLt(c1[2], c2[2]) THEN <<c1[2], c2[2]>> ELSE <<c2[2], c1[2]>>
    IN  [min |-> <<xs[1], ys[1]>>, max |-> <<xs[2], ys[2]>>]

\* Polygon::bounding_rect: None for an empty exterior ring.
BoundingRect(poly) ==
    LET ring == poly.exterior
    IN  IF ring = <<>> THEN None
        ELSE LET r == RectFold(ring, 2, <<ring[1][1], ring[1][1]>>, <<ring[1][2], ring[1][2]>>)
             IN  Some(RectNew(<<r[1][1], r[2][1]>>, <<r[1][2], r[2][2]>>))

\* Rect::center: (max + min) / 2 per axis.
RectCenter(r) == <<FHalf(FAdd(r.max[1], r.min[1])), FHalf(FAdd(r.max[2], r.min[2]))>>

\* ----------------------------------------------------------------- Bounds
\* Bounds::from_polygon
FromPolygon(poly) ==
    LET bound == BoundingRect(poly)
    IN  IF IsSome(bound)
        THEN Some([min_x |-> Unwrap(bound).min[1], max_x |-> Unwrap(bound).max[1],
                   min_y |-> Unwrap(bound).min[2], max_y |-> Unwrap(bound).max[2]])
        ELSE None

\* The scan of Bounds::from_point_set over one iteration order of the set.
RECURSIVE ScanPoints(_, _, _)
ScanPoints(it, i, b) ==
    IF i > Len(it) THEN b
    ELSE LET p == it[i]
             b1 == IF FGt(b.min_x, p.x) THEN [b EXCEPT !.min_x = p.x] ELSE b
             b2 == IF FLt(b1.max_x, p.x) THEN [b1 EXCEPT !.max_x = p.x] ELSE b1
             b3 == IF FGt(b2.min_y, p.y) THEN [b2 EXCEPT !.min_y = p.y] ELSE b2
             b4 == IF FLt(b3.max_y, p.y) THEN [b3 EXCEPT !.max_y = p.y] ELSE b3
         IN  ScanPoints(it, i + 1, b4)

\* Bounds::from_point_set, `it` being the order in which the set is iterated.
FromPointSet(it) ==
    IF Len(it) = 0 THEN None
    ELSE Some(ScanPoints(it, 1, [min_x |-> F64_MAX, max_x |-> F64_MIN,
                                 min_y |-> F64_MAX, max_y |-> F64_MIN]))

diff_x(b) == FSub(b.max_x, b.min_x)
diff_y(b) == FSub(b.max_y, b.min_y)
centre_x(b) == FAdd(b.min_x, FHalf(diff_x(b)))
centre_y(b) == FAdd(b.min_y, FHalf(diff_y(b)))

\* ------------------------------------------------------------- voronoi.rs
\* center_polygon with the difference added to every vertex instead of
\* subtracted.
CenterPolygonSignSlip(polygon, x, y) ==
    LET rect == BoundingRect(polygon)
    IN  IF ~IsSome(rect) THEN Err(ErrRect)
        ELSE LET centre == RectCenter(Unwrap(rect))
                 dif_x == FSub(centre[1], x)
                 dif_y == FSub(centre[2], y)
                 ext == polygon.exterior
                 points == [i \in 1..Len(ext) |-> <<FAdd(ext[i][1], dif_x), FAdd(ext[i][2], dif_y)>>]
             IN  Ok(PolygonNew(points, <<>>))

\* center_polygon
center_polygon(polygon, x, y) ==
    LET rect == BoundingRect(polygon)
    IN  IF ~IsSome(rect) THEN Err(ErrRect)
        ELSE LET centre == RectCenter(Unwrap(rect))
                 dif_x == FSub(centre[1], x)
                 dif_y == FSub(centre[2], y)
                 ext == polygon.exterior
                 points == [i \in 1..Len(ext) |-> <<FSub(ext[i][1], dif_x), FSub(ext[i][2], dif_y)>>]
             IN  Ok(PolygonNew(points, <<>>))

\* voronoi_point_to_array
voronoi_point_to_array(point) == <<point.x, point.y>>

\* Contains<Point> for Polygon: the point lies in the interior of the exterior
\* ring (not on it) and in no hole nor on a hole's ring.  Decided exactly on
\* the coordinate values; a ring with a non-finite coordinate contains nothing.
RingFinite(ring) == \A i \in 1..Len(ring) : IsFinite(ring[i][1]) /\ IsFinite(ring[i][2])

Cross(a, b, p) ==
    (Ext(b[1]) - Ext(a[1])) * (Ext(p[2]) - Ext(a[2]))
        - (Ext(b[2]) - Ext(a[2])) * (Ext(p[1]) - Ext(a[1]))

OnSegment(p, a, b) ==
    /\ Cross(a, b, p) = 0
    /\ (Ext(a[1]) <= Ext(p[1]) /\ Ext(p[1]) <= Ext(b[1])) \/ (Ext(b[1]) <= Ext(p[1]) /\ Ext(p[1]) <= Ext(a[1]))
    /\ (Ext(a[2]) <= Ext(p[2]) /\ Ext(p[2]) <= Ext(b[2])) \/ (Ext(b[2]) <= Ext(p[2]) /\ Ext(p[2]) <= Ext(a[2]))

OnRing(ring, p) == \E i \in 1..(Len(ring) - 1) : OnSegment(p, ring[i], ring[i + 1])

\* Edge i of the ring crosses the ray from p towards +x.
EdgeCrosses(ring, i, p) ==
    LET ax == Ext(ring[i][1])
        ay == Ext(ring[i][2])
        bx == Ext(ring[i + 1][1])
        by == Ext(ring[i + 1][2])
        px == Ext(p[1])
        py == Ext(p[2])
    IN  /\ (ay > py) # (by > py)
        /\ IF by > ay
           THEN (px - ax) * (by - ay) < (py - ay) * (bx - ax)
           ELSE (px - ax) * (by - ay) > (py - ay) * (bx - ax)

InsideRing(ring, p) ==
    /\ RingFinite(ring)
    /\ Len(ring) >= 4
    /\ ~OnRing(ring, p)
    /\ Cardinality({i \in 1..(Len(ring) - 1) : EdgeCrosses(ring, i, p)}) % 2 = 1

PolygonContains(poly, p) ==
    /\ InsideRing(poly.exterior, p)
    /\ \A h \in 1..Len(poly.interiors) :
           /\ RingFinite(poly.interiors[h])
           /\ ~OnRing(poly.interiors[h], p)
           /\ ~InsideRing(poly.interiors[h], p)

\* CoordsIter for Polygon: the exterior ring, then every interior ring.
RECURSIVE Flatten(_)
Flatten(rings) == IF rings = <<>> THEN <<>> ELSE rings[1] \o Flatten(Tail(rings))

CoordsIter(poly) == poly.exterior \o Flatten(poly.interiors)

\* The loop of apply_bound over the intersection regions, with its break.
RECURSIVE FirstContaining(_, _, _)
FirstContaining(regions, i, geo_site) ==
    IF i > Len(regions) THEN None
    ELSE IF PolygonContains(regions[i], geo_site)
         THEN Some(CoordsIter(regions[i]))
         ELSE FirstContaining(regions, i + 1, geo_site)

\* The same loop without the break: the last containing region wins.
RECURSIVE LastContaining(_, _, _)
LastContaining(regions, i, geo_site) ==
    IF i > Len(regions) THEN None
    ELSE LET rest == LastContaining(regions, i + 1, geo_site)
         IN  IF IsSome(rest) THEN rest
             ELSE IF PolygonContains(regions[i], geo_site)
                  THEN Some(CoordsIter(regions[i]))
                  ELSE None

\* apply_bound without the break in its loop.
ApplyBoundNoBreak(self, bnd, regions) ==
    LET centered_bound == center_polygon(bnd, self.site[1], self.site[2])
    IN  IF ~centered_bound.ok THEN Err(centered_bound.err)
        ELSE LET bounded_cell == LastContaining(regions, 1, self.site)
             IN  IF IsSome(bounded_cell)
                 THEN Ok([site |-> self.site, cell |-> Unwrap(bounded_cell)])
                 ELSE Err(ErrIntersection)

\* BoundedVoronoiCell::apply_bound; `regions` is what
\* cell_polygon.intersection(&centered_bound) returned.
apply_bound(self, bnd, regions) ==
    LET centered_bound == center_polygon(bnd, self.site[1], self.site[2])
    IN  IF ~centered_bound.ok THEN Err(centered_bound.err)
        ELSE LET bounded_cell == FirstContaining(regions, 1, self.site)
             IN  IF IsSome(bounded_cell)
                 THEN Ok([site |-> self.site, cell |-> Unwrap(bounded_cell)])
                 ELSE Err(ErrIntersection)

\* The polygon apply_bound builds from the unclipped cell's vertices.
CellPolygon(self) == PolygonNew(self.cell, <<>>)

\* ---------------------------------------------------- external collaborators
\* voronoice::BoundingBox::new(center, width, height)
BoundingBoxNew(center, width, height) == [center |-> center, width |-> width, height |-> height]

BoxLeft(bb) == FSub(bb.center[1], FHalf(bb.width))
BoxRight(bb) == FAdd(bb.center[1], FHalf(bb.width))
BoxBottom(bb) == FSub(bb.center[2], FHalf(bb.height))
BoxTop(bb) == FAdd(bb.center[2], FHalf(bb.height))

\* The vertices the tessellation engine gives a cell.  The engine is a
\* collaborator and nothing below reads the vertices except the boolean
\* operation: every cell is given the corners of the enclosing box.
CellVertices(bb) ==
    <<[x |-> BoxLeft(bb), y |-> BoxBottom(bb)], [x |-> BoxRight(bb), y |-> BoxBottom(bb)],
      [x |-> BoxRight(bb), y |-> BoxTop(bb)], [x |-> BoxLeft(bb), y |-> BoxTop(bb)]>>

\* VoronoiBuilder::default().set_sites(..).set_bounding_box(..).build():
\* no diagram, or one cell per site in the order of the sites, each cell
\* carrying its site unchanged (no relaxation).  Which lists the engine
\* accepts is left open; `known` is the answer it gave before, if any, so
\* that it answers the same way in every call.
VoronoiBuild(s, bb, known) ==
    LET built == Some([i \in 1..Len(s) |-> [site_position |-> s[i], vertices |-> CellVertices(bb)]])
    IN  IF IsSome(known) THEN {IF Unwrap(known) THEN built ELSE None}
        ELSE {None, built}

\* Regions a boolean operation may return, in units of the least normal value.
U == MinNormal
Pt(a, b) == <<F(a), F(b)>>
RegionChoices ==
    {PolygonNew(<<Pt(-2 * U, -2 * U), Pt(2 * U, -2 * U), Pt(2 * U, 2 * U), Pt(-2 * U, 2 * U)>>, <<>>),
     PolygonNew(<<Pt(-4 * U, -4 * U), Pt(4 * U, -4 * U), Pt(0, 6 * U)>>, <<>>)}

\* BooleanOps::intersection: zero or more regions, without holes, in the
\* engine's order.  The geometry of the operation is the collaborator's; any
\* list of regions may come back.  `known` is the list it gave before, if any:
\* within one behaviour the engine gives the same list to every call (which
\* of its regions contain the site differs from site to site).
Intersection(cell_polygon, centered_bound, known) ==
    IF IsSome(known) THEN {Unwrap(known)}
    ELSE UNION {[1..n -> RegionChoices] : n \in 0..MaxRegions}

\* ------------------------------------------------------------------ inputs
\* Raw coordinate pairs of the "points" list: valid ones (both zeros, an
\* ordinary value, the extreme finite values) and invalid ones (NaN,
\* infinities, subnormals, on either coordinate).
PointChoices ==
    <<<<F(0), F(0)>>, <<NegZero, F(0)>>, <<F(U), F(2 * U)>>,
      <<F64_MAX, F(U)>>, <<F64_MIN, F(U)>>,
      <<NaN, F(U)>>, <<F(U), PInf>>, <<NInf, F(U)>>, <<F(1), F(U)>>, <<F(U), F(1)>>>>

\* Raw boundary rings: too short, collinear, open, closed, and one whose
\* width is beyond the greatest finite value.
BoundChoices ==
    {<<>>,
     <<Pt(0, 0)>>,
     <<Pt(0, 0), Pt(U, U)>>,
     <<Pt(0, 0), Pt(U, U), Pt(2 * U, 2 * U)>>,
     <<Pt(-U, -U), Pt(U, -U), Pt(0, U)>>,
     <<Pt(-U, -U), Pt(U, -U), Pt(0, U), Pt(-U, -U)>>,
     <<Pt(-U, -U), Pt(U, -U), Pt(U, U), Pt(-U, U), Pt(-U, -U)>>,
     <<<<F64_MIN, F64_MIN>>, <<F64_MAX, F64_MIN>>, <<F64_MAX, F64_MAX>>, <<F64_MIN, F64_MIN>>>>}

\* The raw lists: up to MaxPoints entries (repeats included), listed in the
\* order of PointChoices; point_set() keeps nothing of the order of the list
\* but which of two == entries it meets first.
PointLists ==
    UNION {{[i \in 1..n |-> PointChoices[f[i]]] :
               f \in {g \in [1..n -> 1..Len(PointChoices)] :
                          \A i \in 1..n : \A j \in 1..n : i < j => g[i] <= g[j]}} :
           n \in 0..MaxPoints}

\* ------------------------------------------------------------------- state
VARIABLES
    point_set,    \* BoundedPointSet.point_set, the raw list
    bound,        \* BoundedPointSet.bound, the raw ring
    pc,           \* position in compute_voronoi
    poly,         \* `bound`, the bounding polygon (line 16)
    bound_bounds, \* Option: Bounds of the bounding polygon (line 17)
    ps_set,       \* the HashSet point_set() returned at line 18
    ps_bounds,    \* Option: Bounds of the point set (lines 18-19)
    sites,        \* the sites handed to the engine (line 21)
    bbox,         \* Option: the enclosing box handed to the engine (lines 24-31)
    diagram,      \* the engine's cells (line 34)
    idx,          \* next cell of iter_cells() to clip
    acc,          \* the accumulator of try_fold
    lastClip,     \* Option: the last apply_bound call, its arguments and result
    engineCalls,  \* number of calls of build()
    result,       \* Option: what compute_voronoi returned
    run,          \* 1 for the first call of compute_voronoi, 2 for the second
    out1,         \* Option: what the first call returned
    engineBuilt,  \* Option: whether the tessellation engine builds a diagram
    boolRegions,  \* Option: the regions the boolean-operation engine returns
    cp_in,        \* Option: the arguments of a call of center_polygon on its own
    cp_out        \* Option: what that call returned

vars == <<point_set, bound, pc, poly, bound_bounds, ps_set, ps_bounds, sites, bbox,
          diagram, idx, acc, lastClip, engineCalls, result, run, out1, engineBuilt, boolRegions,
          cp_in, cp_out>>

Init ==
    /\ point_set \in PointLists
    /\ bound \in BoundChoices
    /\ pc = "bound"
    /\ poly = NoPolygon
    /\ bound_bounds = None
    /\ ps_set = {}
    /\ ps_bounds = None
    /\ sites = <<>>
    /\ bbox = None
    /\ diagram = <<>>
    /\ idx = 1
    /\ acc = <<>>
    /\ lastClip = None
    /\ engineCalls = 0
    /\ result = None
    /\ run = 1
    /\ out1 = None
    /\ engineBuilt = None
    /\ boolRegions = None
    /\ cp_in = None
    /\ cp_out = None

\* compute_voronoi returns r.
Return(r) ==
    /\ result' = Some(r)
    /\ pc' = "done"

\* Line 16: bounded_point_set.bounding_polygon()?
StepBound ==
    /\ pc = "bound"
    /\ LET r == BoundingPolygon(bound)
       IN  IF r.ok
           THEN /\ poly' = r.v
                /\ pc' = "bound_bounds"
                /\ UNCHANGED result
           ELSE /\ Return(Err(r.err))
                /\ UNCHANGED poly
    /\ UNCHANGED <<point_set, bound, bound_bounds, ps_set, ps_bounds, sites, bbox, diagram,
                   idx, acc, lastClip, engineCalls, run, out1, engineBuilt, boolRegions>>
    /\ UNCHANGED <<cp_in, cp_out>>

\* Line 17: Bounds::from_polygon(&bound).ok_or(..)?
StepBoundBounds ==
    /\ pc = "bound_bounds"
    /\ LET b == FromPolygon(poly)
       IN  IF IsSome(b)
           THEN /\ bound_bounds' = b
                /\ pc' = "point_bounds"
                /\ UNCHANGED result
           ELSE /\ Return(Err(ErrBoundInvalid))
                /\ UNCHANGED bound_bounds
    /\ UNCHANGED <<point_set, bound, poly, ps_set, ps_bounds, sites, bbox, diagram,
                   idx, acc, lastClip, engineCalls, run, out1, engineBuilt, boolRegions>>
    /\ UNCHANGED <<cp_in, cp_out>>

\* Lines 18-19: Bounds::from_point_set(&bounded_point_set.point_set()).ok_or(..)?
StepPointBounds ==
    /\ pc = "point_bounds"
    /\ \E hs \in PointSet(point_set) : \E it \in HashSetIter(hs) :
          LET b == FromPointSet(it)
          IN  /\ ps_set' = hs
              /\ IF IsSome(b)
                 THEN /\ ps_bounds' = b
                      /\ pc' = "build"
                      /\ UNCHANGED result
                 ELSE /\ Return(Err(ErrPoints))
                      /\ UNCHANGED ps_bounds
    /\ UNCHANGED <<point_set, bound, poly, bound_bounds, sites, bbox, diagram,
                   idx, acc, lastClip, engineCalls, run, out1, engineBuilt, boolRegions>>
    /\ UNCHANGED <<cp_in, cp_out>>

\* The enclosing box of lines 24-31.
EnclosingBox(bound_point_set, bb) ==
    BoundingBoxNew(<<centre_x(bound_point_set), centre_y(bound_point_set)>>,
                   FAdd(diff_x(bound_point_set), diff_x(bb)),
                   FAdd(diff_y(bound_point_set), diff_y(bb)))

\* Lines 21-34: the sites, the enclosing box, build().ok_or(..)?
StepBuild ==
    /\ pc = "build"
    /\ \E s \in VoronoiPointSet(point_set) :
          LET bb == EnclosingBox(Unwrap(ps_bounds), Unwrap(bound_bounds))
          IN  \E d \in VoronoiBuild(s, bb, engineBuilt) :
                 /\ sites' = s
                 /\ bbox' = Some(bb)
                 /\ engineCalls' = engineCalls + 1
                 /\ engineBuilt' = Some(IsSome(d))
                 /\ IF IsSome(d)
                    THEN /\ diagram' = Unwrap(d)
                         /\ pc' = "clip"
                         /\ UNCHANGED result
                    ELSE /\ Return(Err(ErrBuild))
                         /\ UNCHANGED diagram
    /\ UNCHANGED <<point_set, bound, poly, bound_bounds, ps_set, ps_bounds,
                   idx, acc, lastClip, run, out1, boolRegions>>
    /\ UNCHANGED <<cp_in, cp_out>>

\* Lines 38-41: the unclipped cell made of an engine cell.
Unclipped(cell) ==
    [site |-> voronoi_point_to_array(cell.site_position),
     cell |-> [i \in 1..Len(cell.vertices) |-> voronoi_point_to_array(cell.vertices[i])]]

\* The fold step without the `?`: a cell that cannot be clipped is left out
\* and the fold goes on.
StepClipBestEffort ==
    /\ pc = "clip"
    /\ idx <= Len(diagram)
    /\ LET cell == Unclipped(diagram[idx])
           centered == center_polygon(poly, cell.site[1], cell.site[2])
       IN  \E regions \in (IF centered.ok
                           THEN Intersection(CellPolygon(cell), centered.v, boolRegions)
                           ELSE {<<>>}) :
              LET r == apply_bound(cell, poly, regions)
              IN  /\ lastClip' = Some([in |-> cell, regions |-> regions, out |-> r])
                  /\ boolRegions' = IF centered.ok THEN Some(regions) ELSE boolRegions
                  /\ acc' = IF r.ok THEN Append(acc, r.v) ELSE acc
                  /\ idx' = idx + 1
                  /\ UNCHANGED <<pc, result>>
    /\ UNCHANGED <<point_set, bound, poly, bound_bounds, ps_set, ps_bounds, sites, bbox,
                   diagram, engineCalls, run, out1, engineBuilt>>
    /\ UNCHANGED <<cp_in, cp_out>>

\* Lines 42-45: one step of try_fold, acc.push(cell.apply_bound(&bound)?).
StepClip ==
    /\ pc = "clip"
    /\ idx <= Len(diagram)
    /\ LET cell == Unclipped(diagram[idx])
           centered == center_polygon(poly, cell.site[1], cell.site[2])
       IN  \E regions \in (IF centered.ok
                           THEN Intersection(CellPolygon(cell), centered.v, boolRegions)
                           ELSE {<<>>}) :
              LET r == apply_bound(cell, poly, regions)
              IN  /\ lastClip' = Some([in |-> cell, regions |-> regions, out |-> r])
                  /\ boolRegions' = IF centered.ok THEN Some(regions) ELSE boolRegions
                  /\ IF r.ok
                     THEN /\ acc' = Append(acc, r.v)
                          /\ idx' = idx + 1
                          /\ UNCHANGED <<pc, result>>
                     ELSE /\ Return(Err(r.err))
                          /\ UNCHANGED <<acc, idx>>
    /\ UNCHANGED <<point_set, bound, poly, bound_bounds, ps_set, ps_bounds, sites, bbox,
                   diagram, engineCalls, run, out1, engineBuilt>>
    /\ UNCHANGED <<cp_in, cp_out>>

\* Line 46: Ok(cells)
StepReturn ==
    /\ pc = "clip"
    /\ idx > Len(diagram)
    /\ Return(Ok(acc))
    /\ UNCHANGED <<point_set, bound, poly, bound_bounds, ps_set, ps_bounds, sites, bbox,
                   diagram, idx, acc, lastClip, engineCalls, run, out1, engineBuilt, boolRegions>>
    /\ UNCHANGED <<cp_in, cp_out>>

\* compute_voronoi is called again on the same BoundedPointSet value.
CallAgain ==
    /\ pc = "done"
    /\ run = 1
    /\ run' = 2
    /\ out1' = result
    /\ pc' = "bound"
    /\ poly' = NoPolygon
    /\ bound_bounds' = None
    /\ ps_set' = {}
    /\ ps_bounds' = None
    /\ sites' = <<>>
    /\ bbox' = None
    /\ diagram' = <<>>
    /\ idx' = 1
    /\ acc' = <<>>
    /\ lastClip' = None
    /\ engineCalls' = 0
    /\ result' = None
    /\ UNCHANGED <<point_set, bound, engineBuilt, boolRegions>>
    /\ UNCHANGED <<cp_in, cp_out>>

Next ==
    \/ StepBound
    \/ StepBoundBounds
    \/ StepPointBounds
    \/ StepBuild
    \/ StepClip
    \/ StepReturn

Spec == Init /\ [][Next]_vars

NextTwice == Next \/ CallAgain

\* Two calls on lists without two entries that are == under different
\* representations (0.0 and -0.0): what differs between the calls is then
\* only the order in which the HashSet is iterated.
InitTwice ==
    /\ Init
    /\ \A i, j \in 1..Len(point_set) :
           CoordEq(point_set[i], point_set[j]) => point_set[i] = point_set[j]

SpecTwice == InitTwice /\ [][NextTwice]_vars

\* ------------------------------------------- center_polygon called on its own
\* Polygons handed to center_polygon: what Polygon::new makes of the raw
\* rings, the one without any coordinate (no bounding rectangle) included,
\* a square whose coordinates use the lowest mantissa bit, and a polygon
\* with a hole.
PolygonChoices ==
    {PolygonNew(b, <<>>) : b \in BoundChoices}
        \cup {PolygonNew(<<Pt(-(U + 1), -(U + 1)), Pt(U + 1, -(U + 1)),
                           Pt(U + 1, U + 1), Pt(-(U + 1), U + 1)>>, <<>>),
              PolygonNew(<<Pt(-2 * U, -2 * U), Pt(2 * U, -2 * U), Pt(2 * U, 2 * U), Pt(-2 * U, 2 * U)>>,
                         <<<<Pt(-U, -U), Pt(U, -U), Pt(U, U), Pt(-U, U)>>>>)}

\* Coordinates of the new centre: coordinates a site can have (finite, not
\* subnormal), both zeros and the extreme finite values included.
CentreChoices ==
    {F(0), NegZero, F(U), F(-U), F(2 * U), F(8 * U), F64_MAX, F64_MIN}

InitCenter ==
    /\ point_set = <<>>
    /\ bound = <<>>
    /\ pc = "center"
    /\ poly = NoPolygon
    /\ bound_bounds = None
    /\ ps_set = {}
    /\ ps_bounds = None
    /\ sites = <<>>
    /\ bbox = None
    /\ diagram = <<>>
    /\ idx = 1
    /\ acc = <<>>
    /\ lastClip = None
    /\ engineCalls = 0
    /\ result = None
    /\ run = 1
    /\ out1 = None
    /\ engineBuilt = None
    /\ boolRegions = None
    /\ \E polygon \in PolygonChoices : \E x \in CentreChoices : \E y \in CentreChoices :
           cp_in = Some([polygon |-> polygon, x |-> x, y |-> y])
    /\ cp_out = None

\* center_polygon(polygon, x, y): the polygon is borrowed, only the result is new.
CenterCall ==
    /\ pc = "center"
    /\ LET a == Unwrap(cp_in)
       IN  cp_out' = Some(center_polygon(a.polygon, a.x, a.y))
    /\ pc' = "centered"
    /\ UNCHANGED <<point_set, bound, poly, bound_bounds, ps_set, ps_bounds, sites, bbox,
                   diagram, idx, acc, lastClip, engineCalls, result, run, out1, engineBuilt,
                   boolRegions, cp_in>>

NextCenter == CenterCall

SpecCenter == InitCenter /\ [][NextCenter]_vars

\* ================================================================== claims
\* The valid entries of the raw list, as Point2D values: distinct by their
\* coordinate representation.
ValidPoints(list) ==
    {Unwrap(Point2DNew(list[i][1], list[i][2])) :
         i \in {j \in 1..Len(list) : IsSome(Point2DNew(list[j][1], list[j][2]))}}

Returned == pc = "done" /\ IsSome(result)

\* C1: a second call of compute_voronoi on the same BoundedPointSet value
\* returns exactly what the first call returned: the same cells, with the
\* same sites and polygons, in the same order.
C1_SameOutputTwice == (run = 2 /\ Returned) => result = out1

\* C2: when compute_voronoi returns Ok, the number of cells equals the number
\* of valid coordinate pairs of the list that are distinct by representation,
\* and each such pair is the site of exactly one cell.
C2_OneCellPerValidPair ==
    (Returned /\ Unwrap(result).ok) =>
        LET cells == Unwrap(result).v
            valid == ValidPoints(point_set)
        IN  /\ Len(cells) = Cardinality(valid)
            /\ \A p \in valid :
                   Cardinality({i \in 1..Len(cells) : cells[i].site = <<p.x, p.y>>}) = 1

NoValidPoint == \A i \in 1..Len(point_set) : ~IsSome(Point2DNew(point_set[i][1], point_set[i][2]))

\* C4: compute_voronoi fails with the insufficient-boundary-points error
\* exactly when the ring has fewer than 3 points, whatever the list holds;
\* with 3 or more ring points and no valid point in the list it fails with
\* the insufficient-points error; the engine is not invoked in either case.
C4_StageOrder ==
    Returned =>
        LET r == Unwrap(result)
        IN  /\ (Len(bound) < 3) <=> (~r.ok /\ r.err = ErrBoundPoints)
            /\ (Len(bound) >= 3 /\ NoValidPoint) => (~r.ok /\ r.err = ErrPoints)
            /\ (Len(bound) < 3 \/ NoValidPoint) => engineCalls = 0

\* C4 happens: a ring of exactly 3 points, a list holding only invalid points.
C4_Witness ==
    /\ Returned
    /\ Len(bound) = 3
    /\ Len(point_set) > 0
    /\ NoValidPoint
    /\ Unwrap(result) = Err(ErrPoints)

\* The unclipped cell of the i-th cell of the engine.
EngineSite(i) == voronoi_point_to_array(diagram[i].site_position)

\* C5: the cells of the engine are clipped one after another in the engine's
\* order; a failing apply_bound makes compute_voronoi return that error and
\* no cell, the cells after it are not clipped; Ok is returned only when
\* every cell was clipped, and lists the clipped cells in the engine's order.
C5_AllOrNothing ==
    /\ (pc = "clip") =>
           /\ Len(acc) = idx - 1
           /\ \A i \in 1..Len(acc) :
                  acc[i] = apply_bound(Unclipped(diagram[i]), poly, Unwrap(boolRegions)).v
    /\ (Returned /\ diagram # <<>>) =>
           LET r == Unwrap(result)
           IN  IF r.ok
               THEN /\ Len(r.v) = Len(diagram)
                    /\ \A i \in 1..Len(r.v) :
                           /\ r.v[i].site = EngineSite(i)
                           /\ apply_bound(Unclipped(diagram[i]), poly, Unwrap(boolRegions)) = Ok(r.v[i])
               ELSE /\ r.v = <<>>
                    /\ idx <= Len(diagram)
                    /\ Len(acc) = idx - 1
                    /\ Unwrap(lastClip).in = Unclipped(diagram[idx])
                    /\ Unwrap(lastClip).out = r

\* C5 happens: the first cell was clipped, the second one fails.
C5_Witness ==
    /\ Returned
    /\ ~Unwrap(result).ok
    /\ Unwrap(result).err = ErrIntersection
    /\ Len(acc) = 1
    /\ idx = 2

\* C6: point_set() returns exactly the input pairs whose coordinates are both
\* finite and not subnormal: every valid pair is a member, pairs that differ
\* in any bit stay distinct, invalid pairs are dropped.
C6_PointSetExact == (pc = "build") => ps_set = ValidPoints(point_set)

\* C7: on the points Point2D::new returned, two points compare equal exactly
\* when they feed the same bit patterns to the hasher, any two are comparable
\* without panic, and the HashSet holds no two points that compare equal.
C7_EqHashConsistent ==
    \A p, q \in ps_set :
        /\ Point2DEq(p, q) <=> (Point2DHashInput(p) = Point2DHashInput(q))
        /\ Point2DCmp(p, q) # "panic"
        /\ (p # q) => ~Point2DEq(p, q)

\* C8: for a non-empty point set the bounds are the least and greatest
\* coordinate on each axis, diff_x() >= 0, diff_y() >= 0, centre_x() lies in
\* [min_x, max_x] and centre_y() in [min_y, max_y]; the empty set gives None.
C8_Extent ==
    /\ (pc \in {"build", "clip"}) => (IsSome(ps_bounds) /\ ps_set # {})
    /\ (Returned /\ Unwrap(result) = Err(ErrPoints)) => (ps_bounds = None /\ ps_set = {})
    /\ IsSome(ps_bounds) =>
           LET b == Unwrap(ps_bounds)
           IN  /\ \A p \in ps_set : FLe(b.min_x, p.x) /\ FLe(p.x, b.max_x)
               /\ \A p \in ps_set : FLe(b.min_y, p.y) /\ FLe(p.y, b.max_y)
               /\ \E p \in ps_set : FEq(b.min_x, p.x)
               /\ \E p \in ps_set : FEq(b.max_x, p.x)
               /\ \E p \in ps_set : FEq(b.min_y, p.y)
               /\ \E p \in ps_set : FEq(b.max_y, p.y)
               /\ FLe(F(0), diff_x(b))
               /\ FLe(F(0), diff_y(b))
               /\ FLe(b.min_x, centre_x(b)) /\ FLe(centre_x(b), b.max_x)
               /\ FLe(b.min_y, centre_y(b)) /\ FLe(centre_y(b), b.max_y)

\* C9 as stated: for a ring of 3 or more points, closed or not, the polygon
\* has no interior ring and its exterior ring is the input ring, coordinate
\* by coordinate, with nothing added.
C9_RingUnchanged ==
    (poly # NoPolygon) => (poly.interiors = <<>> /\ poly.exterior = bound)

\* C9 amended: for a ring of 3 or more points the polygon has no interior
\* ring and its exterior ring starts with the input ring, coordinate by
\* coordinate; when the last point equals the first the exterior ring is the
\* input ring, otherwise one coordinate is added at the end, a copy of the
\* first point.
C9_RingClosed ==
    (poly # NoPolygon) =>
        LET ext == poly.exterior
            n == Len(bound)
        IN  /\ n >= 3
            /\ poly.interiors = <<>>
            /\ \A i \in 1..n : ext[i] = bound[i]
            /\ IF CoordEq(bound[1], bound[n])
               THEN Len(ext) = n
               ELSE Len(ext) = n + 1 /\ ext[n + 1] = bound[1]

\* C9 happens: a ring of 3 points whose last point is not its first.
C9_Witness ==
    /\ poly # NoPolygon
    /\ Len(bound) = 3
    /\ ~CoordEq(bound[1], bound[3])
    /\ Len(poly.exterior) = 4

\* C10: the enclosing box is centred on the centre of the point set's extent,
\* its width and height are the sums of the widths and heights of the point
\* set and the bound, and for every site every vertex of the bounding
\* polygon recentred on that site lies strictly inside the box.
C10_BoundStrictlyInsideBox ==
    IsSome(bbox) =>
        LET bb == Unwrap(bbox)
            ps == Unwrap(ps_bounds)
            bnd == Unwrap(bound_bounds)
        IN  /\ bb.center = <<centre_x(ps), centre_y(ps)>>
            /\ bb.width = FAdd(diff_x(ps), diff_x(bnd))
            /\ bb.height = FAdd(diff_y(ps), diff_y(bnd))
            /\ \A s \in 1..Len(sites) :
                   LET c == center_polygon(poly, sites[s].x, sites[s].y)
                   IN  /\ c.ok
                       /\ \A i \in 1..Len(c.v.exterior) :
                              /\ FLt(BoxLeft(bb), c.v.exterior[i][1])
                              /\ FLt(c.v.exterior[i][1], BoxRight(bb))
                              /\ FLt(BoxBottom(bb), c.v.exterior[i][2])
                              /\ FLt(c.v.exterior[i][2], BoxTop(bb))

\* Width and height of the bounding rectangle of a polygon that has one.
RectWidth(r) == FSub(r.max[1], r.min[1])
RectHeight(r) == FSub(r.max[2], r.min[2])

\* C11 as stated: center_polygon(polygon, x, y) on a polygon that has a
\* bounding rectangle returns Ok with a polygon of as many exterior vertices,
\* in the same order, each the original vertex translated by (x - cx, y - cy),
\* (cx, cy) being the centre of the original bounding rectangle; the centre
\* of the result's bounding rectangle is exactly (x, y) and its width and
\* height are the original's; a polygon without a bounding rectangle gives
\* the invalid-bounding-rectangle error.
C11_CentredTranslation ==
    IsSome(cp_out) =>
        LET a == Unwrap(cp_in)
            r == Unwrap(cp_out)
            rect == BoundingRect(a.polygon)
        IN  IF ~IsSome(rect) THEN r = Err(ErrRect)
            ELSE LET c == RectCenter(Unwrap(rect))
                     tx == FSub(a.x, c[1])
                     ty == FSub(a.y, c[2])
                     old == a.polygon.exterior
                 IN  /\ r.ok
                     /\ Len(r.v.exterior) = Len(old)
                     /\ \A i \in 1..Len(old) :
                            /\ FEq(r.v.exterior[i][1], FAdd(old[i][1], tx))
                            /\ FEq(r.v.exterior[i][2], FAdd(old[i][2], ty))
                     /\ IsSome(BoundingRect(r.v))
                     /\ LET new == Unwrap(BoundingRect(r.v))
                        IN  /\ FEq(RectCenter(new)[1], a.x)
                            /\ FEq(RectCenter(new)[2], a.y)
                            /\ FEq(RectWidth(new), RectWidth(Unwrap(rect)))
                            /\ FEq(RectHeight(new), RectHeight(Unwrap(rect)))

\* On axis k, no operation of center_polygon rounds or overflows: the centre
\* (max + min) / 2, the difference centre - x and every vertex - difference
\* are the exact values.
ExactAxis(old, new, rect, x, k) ==
    LET c == RectCenter(rect)[k]
        dif == FSub(c, x)
    IN  /\ IsFinite(c)
        /\ 2 * Ext(c) = Ext(rect.max[k]) + Ext(rect.min[k])
        /\ IsFinite(dif)
        /\ Ext(dif) = Ext(c) - Ext(x)
        /\ \A i \in 1..Len(old) :
               /\ IsFinite(new[i][k])
               /\ Ext(new[i][k]) = Ext(old[i][k]) - Ext(dif)

\* C11 amended: on a polygon that has a bounding rectangle (coordinates and
\* x, y finite) center_polygon returns Ok with a polygon without interior
\* ring, of as many exterior vertices, in the same order, each the original
\* vertex translated by (x - cx, y - cy) in f64 arithmetic, every operation
\* rounded; on an axis where no operation rounds, the bounding rectangle of
\* the result has its midpoint at the given coordinate and the original's
\* extent; a polygon without a bounding rectangle gives the
\* invalid-bounding-rectangle error.
C11_TranslationRounded ==
    IsSome(cp_out) =>
        LET a == Unwrap(cp_in)
            r == Unwrap(cp_out)
            rect == BoundingRect(a.polygon)
        IN  IF ~IsSome(rect) THEN r = Err(ErrRect)
            ELSE LET c == RectCenter(Unwrap(rect))
                     t == <<FSub(a.x, c[1]), FSub(a.y, c[2])>>
                     to == <<a.x, a.y>>
                     old == a.polygon.exterior
                 IN  /\ r.ok
                     /\ r.v.interiors = <<>>
                     /\ Len(r.v.exterior) = Len(old)
                     /\ \A i \in 1..Len(old) : \A k \in 1..2 :
                            FEq(r.v.exterior[i][k], FAdd(old[i][k], t[k]))
                     /\ IsSome(BoundingRect(r.v))
                     /\ \A k \in 1..2 :
                            ExactAxis(old, r.v.exterior, Unwrap(rect), to[k], k) =>
                                LET new == Unwrap(BoundingRect(r.v))
                                IN  /\ Ext(new.max[k]) + Ext(new.min[k]) = 2 * Ext(to[k])
                                    /\ Ext(new.max[k]) - Ext(new.min[k])
                                           = Ext(Unwrap(rect).max[k]) - Ext(Unwrap(rect).min[k])

\* C11 happens: a ring of four corners is moved on both axes; on the x axis
\* nothing rounds, on the y axis a vertex does.
C11_Witness ==
    /\ IsSome(cp_out)
    /\ Unwrap(cp_out).ok
    /\ LET a == Unwrap(cp_in)
           r == Unwrap(cp_out)
           rect == Unwrap(BoundingRect(a.polygon))
       IN  /\ Len(a.polygon.exterior) = 5
           /\ \A k \in 1..2 : ~FEq(r.v.exterior[1][k], a.polygon.exterior[1][k])
           /\ ExactAxis(a.polygon.exterior, r.v.exterior, rect, a.x, 1)
           /\ ~ExactAxis(a.polygon.exterior, r.v.exterior, rect, a.y, 2)

====
